---------------------------- MODULE Spec2Model ----------------------------
(***************************************************************************)
(* A state-machine model of github_org_stats.py: command-line resolution, *)
(* the paged fetch of a repository listing (organization shape first,     *)
(* user shape on 404), the fold of the fetched stats by display name and  *)
(* the sorted report.  The GitHub API is the environment: every page      *)
(* request is answered nondeterministically with a transport failure, a   *)
(* status, an undecodable body, an empty page or a non-empty page.        *)
(*                                                                         *)
(* Strings that the program parses (file lines, names) are sequences of   *)
(* one-character strings, so that strip() and split('\t') are computed.   *)
(***************************************************************************)
EXTENDS Integers, Sequences, FiniteSets

(* ------------------------------ bounds -------------------------------- *)
\* most non-empty pages the server serves for one listing
MaxPages == 2
\* most positional identifiers, and most lines of the input file
MaxInputs == 2

(* ------------------------- program constants -------------------------- *)
HTTP_OK == 200
HTTP_NOT_FOUND == 404
\* sys.exit(1) of read_orgs_from_file and of main; also an uncaught exception
EXIT_FAILURE == 1
\* the first page number
FIRST_PAGE == 1
\* the exit status of argparse's parser.error
EXIT_USAGE == 2

(* --------------------------- input alphabet --------------------------- *)
TAB == "\t"
NameA == <<"a">>
NameB == <<"b">>
Names == {NameA, NameB}
\* raw lines of the input file: a blank line, two identifiers sharing the
\* display label "L", and a one-column line with a trailing tab
Lines == { <<" ">>, <<"a", TAB, "L">>, <<"b", TAB, "L">>, <<"b", TAB>> }
\* non-empty pages the server may serve (stargazers_count of each item)
Pages == { <<2>>, <<0, 1>> }
\* statuses other than 200 and 404
ErrStatuses == {403, 500}

\* args.file: None, the empty string, or a path
NoFile == "<None>"
MissingPath == "missing.tsv"
LockedPath == "locked.tsv"
GoodPath == "orgs.tsv"

SeqsUpTo(S, n) == UNION { [1..k -> S] : k \in 0..n }

(* ----------------------------- responses ------------------------------ *)
NoResponse == [raised |-> FALSE, status_code |-> 0, json_ok |-> FALSE, repos |-> <<>>]
RaisedResponse == [raised |-> TRUE, status_code |-> 0, json_ok |-> FALSE, repos |-> <<>>]
StatusResponse(s) == [raised |-> FALSE, status_code |-> s, json_ok |-> TRUE, repos |-> <<>>]
BadJsonResponse == [raised |-> FALSE, status_code |-> HTTP_OK, json_ok |-> FALSE, repos |-> <<>>]
PageResponse(p) == [raised |-> FALSE, status_code |-> HTTP_OK, json_ok |-> TRUE, repos |-> p]

(* ------------------------ read_orgs_from_file ------------------------- *)
IsSpace(c) == c \in {" ", TAB, "\n"}

RECURSIVE LStrip(_)
LStrip(s) == IF s = <<>> THEN s
             ELSE IF IsSpace(Head(s)) THEN LStrip(Tail(s)) ELSE s

RECURSIVE RStrip(_)
RStrip(s) == IF s = <<>> THEN s
             ELSE IF IsSpace(s[Len(s)]) THEN RStrip(SubSeq(s, 1, Len(s) - 1)) ELSE s

\* str.strip()
Strip(s) == RStrip(LStrip(s))

\* str.split('\t')
RECURSIVE Split(_)
Split(s) ==
    IF \A k \in 1..Len(s) : s[k] # TAB THEN <<s>>
    ELSE LET k == CHOOSE j \in 1..Len(s) : s[j] = TAB /\ \A m \in 1..(j - 1) : s[m] # TAB
         IN <<SubSeq(s, 1, k - 1)>> \o Split(SubSeq(s, k + 1, Len(s)))

\* the body of the "for line in f" loop
RECURSIVE read_orgs_from_file(_)
read_orgs_from_file(lines) ==
    IF lines = <<>> THEN <<>>
    ELSE LET line == Strip(Head(lines))
             parts == Split(line)
             rest == read_orgs_from_file(Tail(lines))
         IN IF line = <<>> THEN rest
            ELSE IF Len(parts) >= 2 THEN <<<<parts[1], parts[2]>>>> \o rest
            ELSE <<<<parts[1], parts[1]>>>> \o rest

(* ------------------------ input resolution ---------------------------- *)
\* Python truthiness of args.file
Truthy(f) == f # NoFile /\ f # ""

Abort(code) == [exit |-> code, org_data |-> <<>>]
Proceed(od) == [exit |-> -1, org_data |-> od]

PositionalData(orgs) == [k \in 1..Len(orgs) |-> <<orgs[k], orgs[k]>>]

\* faulty variant: the "if not orgs" check is missing
ResolveInput_NoEmptyCheck(f, lines, orgs) ==
    IF Truthy(f)
    THEN IF f = MissingPath THEN Abort(EXIT_FAILURE)
         ELSE IF f = LockedPath THEN Abort(EXIT_FAILURE)
         ELSE Proceed(read_orgs_from_file(lines))
    ELSE IF orgs # <<>> THEN Proceed(PositionalData(orgs))
    ELSE Abort(EXIT_USAGE)

\* faulty variant: the positional identifiers are tested before the file
ResolveInput_PositionalFirst(f, lines, orgs) ==
    IF orgs # <<>> THEN Proceed(PositionalData(orgs))
    ELSE IF Truthy(f)
    THEN IF f = MissingPath THEN Abort(EXIT_FAILURE)
         ELSE IF f = LockedPath THEN Abort(EXIT_FAILURE)
         ELSE LET od == read_orgs_from_file(lines)
              IN IF od = <<>> THEN Abort(EXIT_FAILURE) ELSE Proceed(od)
    ELSE Abort(EXIT_USAGE)

\* main, from parse_args to the "if not orgs" check.  A missing file is
\* caught and exits 1; any other OSError of open() is uncaught and ends the
\* process with status 1; parser.error exits 2.
ResolveInput(f, lines, orgs) ==
    IF Truthy(f)
    THEN IF f = MissingPath THEN Abort(EXIT_FAILURE)
         ELSE IF f = LockedPath THEN Abort(EXIT_FAILURE)
         ELSE LET od == read_orgs_from_file(lines)
              IN IF od = <<>> THEN Abort(EXIT_FAILURE) ELSE Proceed(od)
    ELSE IF orgs # <<>> THEN Proceed(PositionalData(orgs))
    ELSE Abort(EXIT_USAGE)

(* ------------------------- paging arithmetic -------------------------- *)
RECURSIVE SumSeq(_)
SumSeq(s) == IF s = <<>> THEN 0 ELSE Head(s) + SumSeq(Tail(s))

\* faulty variant: "=" where the code has "+="
Accumulate_Overwrite(acc, n) == n

\* repo_count += ..., total_stars += ...
Accumulate(acc, n) == acc + n

\* faulty variant: a page is skipped
NextPage_Skip(p) == p + 2

\* page += 1
NextPage(p) == p + 1

\* faulty variant: the counts accumulated so far are returned
OnErrorStatus_Partial(rc, sc) == <<rc, sc>>

\* "return 0, 0" of the error branches
OnErrorStatus(rc, sc) == <<0, 0>>

(* ----------------------------- aggregation ---------------------------- *)
HasLabel(ds, name) == \E k \in 1..Len(ds) : ds[k].name = name

\* if display_name not in display_stats: display_stats[display_name] = {...}
SetDefault(ds, name) ==
    IF HasLabel(ds, name) THEN ds
    ELSE Append(ds, [name |-> name, repos |-> 0, stars |-> 0])

\* faulty variant: the stars are not added
AddStats_NoStars(ds, name, rc, sc) ==
    [k \in 1..Len(ds) |->
        IF ds[k].name = name THEN [ds[k] EXCEPT !.repos = @ + rc] ELSE ds[k]]

\* faulty variant: "=" where the code has "+="
AddStats_Overwrite(ds, name, rc, sc) ==
    [k \in 1..Len(ds) |->
        IF ds[k].name = name THEN [ds[k] EXCEPT !.repos = rc, !.stars = sc] ELSE ds[k]]

\* display_stats[display_name]['repos'] += ...; ['stars'] += ...
AddStats(ds, name, rc, sc) ==
    [k \in 1..Len(ds) |->
        IF ds[k].name = name
        THEN [ds[k] EXCEPT !.repos = @ + rc, !.stars = @ + sc] ELSE ds[k]]

(* ------------------------------- report ------------------------------- *)
\* faulty variant: the sort key is the star total alone
KeyOf_StarsOnly(x) == <<x.stars, 0>>

\* key=lambda x: (x[1]['stars'], x[1]['repos'])
KeyOf(x) == <<x.stars, x.repos>>

\* tuple comparison
KeyLess(a, b) == a[1] < b[1] \/ (a[1] = b[1] /\ a[2] < b[2])

\* sorted(..., reverse=True) is stable: equal keys keep their dict order
RECURSIVE InsertRow(_, _)
InsertRow(x, t) ==
    IF t = <<>> THEN <<x>>
    ELSE IF KeyLess(KeyOf(Head(t)), KeyOf(x)) THEN <<x>> \o t
    ELSE <<Head(t)>> \o InsertRow(x, Tail(t))

RECURSIVE SortedFrom(_, _)
SortedFrom(ds, acc) ==
    IF ds = <<>> THEN acc ELSE SortedFrom(Tail(ds), InsertRow(Head(ds), acc))

Sorted(ds) == SortedFrom(ds, <<>>)

RECURSIVE SumRepos(_)
SumRepos(rows) == IF rows = <<>> THEN 0 ELSE Head(rows).repos + SumRepos(Tail(rows))

RECURSIVE SumStars(_)
SumStars(rows) == IF rows = <<>> THEN 0 ELSE Head(rows).stars + SumStars(Tail(rows))

(* ------------------------------- state -------------------------------- *)
VARIABLES
    args_file,          \* args.file
    file_lines,         \* the lines of the file at GoodPath
    organizations,      \* args.organizations
    pc,                 \* where the process is
    exit_code,          \* the exit status, -1 while running
    org_data,           \* main: list of (org_name, display_name)
    i,                  \* main: position of the for loop in org_data
    display_stats,      \* main: dict in insertion order
    repo_count,         \* get_org_stats locals
    total_stars,
    page,
    params,             \* page of the last request of get_org_stats, 0 if none
    u_repo_count,       \* get_user_stats locals
    u_total_stars,
    u_page,
    u_params,           \* page of the last request of get_user_stats, 0 if none
    response,           \* the last response of the fetch in progress
    inflight,           \* requests sent and not yet answered
    served,             \* non-empty pages the server served for the listing being walked
    retval,             \* the value get_org_stats returned, <<>> if none
    returned,           \* the values returned for targets 1..i-1
    diagnosed,          \* positions of the targets a diagnostic was printed for
    sorted_stats,       \* main: the printed rows
    total_repos,        \* main: the totals row
    main_total_stars,
    table_printed

vars == <<args_file, file_lines, organizations, pc, exit_code, org_data, i,
          display_stats, repo_count, total_stars, page, params, u_repo_count,
          u_total_stars, u_page, u_params, response, inflight, served, retval,
          returned, diagnosed, sorted_stats, total_repos, main_total_stars,
          table_printed>>

mainVars == <<org_data, i, display_stats, returned, sorted_stats, total_repos,
              main_total_stars, table_printed>>
argVars == <<args_file, file_lines, organizations>>
orgFrame == <<repo_count, total_stars, page, params>>
userFrame == <<u_repo_count, u_total_stars, u_page, u_params>>

\* A file is given together with at most one positional identifier; without
\* a file the positional identifiers are any list of up to MaxInputs names.
Init ==
    /\ \/ /\ args_file \in {NoFile, ""}
          /\ file_lines = <<>>
          /\ organizations \in SeqsUpTo(Names, MaxInputs)
       \/ /\ args_file \in {MissingPath, LockedPath}
          /\ file_lines = <<>>
          /\ organizations \in SeqsUpTo(Names, 1)
       \/ /\ args_file = GoodPath
          /\ file_lines \in SeqsUpTo(Lines, MaxInputs)
          /\ organizations \in SeqsUpTo(Names, 1)
    /\ pc = "main"
    /\ exit_code = -1
    /\ org_data = <<>>
    /\ i = 1
    /\ display_stats = <<>>
    /\ repo_count = 0 /\ total_stars = 0 /\ page = FIRST_PAGE /\ params = 0
    /\ u_repo_count = 0 /\ u_total_stars = 0 /\ u_page = FIRST_PAGE /\ u_params = 0
    /\ response = NoResponse
    /\ inflight = {}
    /\ served = <<>>
    /\ retval = <<>>
    /\ returned = <<>>
    /\ diagnosed = {}
    /\ sorted_stats = <<>>
    /\ total_repos = 0
    /\ main_total_stars = 0
    /\ table_printed = FALSE

(* ------------------------------- main --------------------------------- *)
\* lines 131-147
ParseArgs ==
    /\ pc = "main"
    /\ LET r == ResolveInput(args_file, file_lines, organizations)
       IN IF r.exit # -1
          THEN /\ pc' = "exited"
               /\ exit_code' = r.exit
               /\ UNCHANGED org_data
          ELSE /\ pc' = "loop"
               /\ org_data' = r.org_data
               /\ UNCHANGED exit_code
    /\ UNCHANGED <<argVars, i, display_stats, returned, sorted_stats, total_repos,
                   main_total_stars, table_printed, orgFrame, userFrame, response,
                   inflight, served, retval, diagnosed>>

\* lines 149-153: the next target; the call of get_org_stats (lines 28-31)
LoopNext ==
    /\ pc = "loop"
    /\ i <= Len(org_data)
    /\ display_stats' = SetDefault(display_stats, org_data[i][2])
    /\ repo_count' = 0 /\ total_stars' = 0 /\ page' = FIRST_PAGE /\ params' = 0
    /\ pc' = "org_get"
    /\ UNCHANGED <<argVars, exit_code, org_data, i, returned, sorted_stats,
                   total_repos, main_total_stars, table_printed, userFrame,
                   response, inflight, served, retval, diagnosed>>

\* the for loop is exhausted
LoopEnd ==
    /\ pc = "loop"
    /\ i > Len(org_data)
    /\ pc' = "report"
    /\ UNCHANGED <<argVars, exit_code, mainVars, orgFrame, userFrame, response,
                   inflight, served, retval, diagnosed>>

\* lines 153-155: the returned pair is added to the label's entry; the
\* frames of the call are gone
Fold ==
    /\ pc = "fold"
    /\ display_stats' = AddStats(display_stats, org_data[i][2], retval[1], retval[2])
    /\ returned' = Append(returned, retval)
    /\ i' = i + 1
    /\ retval' = <<>>
    /\ repo_count' = 0 /\ total_stars' = 0 /\ page' = FIRST_PAGE /\ params' = 0
    /\ u_repo_count' = 0 /\ u_total_stars' = 0 /\ u_page' = FIRST_PAGE /\ u_params' = 0
    /\ response' = NoResponse
    /\ served' = <<>>
    /\ pc' = "loop"
    /\ UNCHANGED <<argVars, exit_code, org_data, sorted_stats, total_repos,
                   main_total_stars, table_printed, inflight, diagnosed>>

\* lines 157-172, and the normal end of the process
Report ==
    /\ pc = "report"
    /\ sorted_stats' = Sorted(display_stats)
    /\ total_repos' = SumRepos(Sorted(display_stats))
    /\ main_total_stars' = SumStars(Sorted(display_stats))
    /\ table_printed' = TRUE
    /\ pc' = "exited"
    /\ exit_code' = 0
    /\ UNCHANGED <<argVars, org_data, i, display_stats, returned, orgFrame,
                   userFrame, response, inflight, served, retval, diagnosed>>

(* --------------------------- get_org_stats ---------------------------- *)
OrgRequest == [idx |-> i, shape |-> "org", page |-> page]

\* lines 35-38: the request is sent
OrgGet ==
    /\ pc = "org_get"
    /\ inflight' = inflight \cup {OrgRequest}
    /\ params' = page
    /\ pc' = "org_wait"
    /\ UNCHANGED <<argVars, exit_code, mainVars, repo_count, total_stars, page,
                   userFrame, response, served, retval, diagnosed>>

\* line 38: requests.get raises; nothing catches it
OrgRaises ==
    /\ pc = "org_wait"
    /\ inflight' = inflight \ {OrgRequest}
    /\ response' = RaisedResponse
    /\ pc' = "exited"
    /\ exit_code' = EXIT_FAILURE
    /\ UNCHANGED <<argVars, mainVars, orgFrame, userFrame, served, retval, diagnosed>>

\* faulty variant: a 404 is reported as not found without trying the user
\* listing
OrgNotFound_NoFallback ==
    /\ pc = "org_wait"
    /\ inflight' = inflight \ {OrgRequest}
    /\ response' = StatusResponse(HTTP_NOT_FOUND)
    /\ retval' = <<0, 0>>
    /\ diagnosed' = diagnosed \cup {i}
    /\ pc' = "fold"
    /\ UNCHANGED <<argVars, exit_code, mainVars, orgFrame, userFrame, served>>

\* lines 40-42 and 75-78: get_user_stats is called; the locals of
\* get_org_stats are never read again
OrgNotFound ==
    /\ pc = "org_wait"
    /\ inflight' = inflight \ {OrgRequest}
    /\ response' = StatusResponse(HTTP_NOT_FOUND)
    /\ repo_count' = 0 /\ total_stars' = 0 /\ page' = FIRST_PAGE /\ params' = 0
    /\ u_repo_count' = 0 /\ u_total_stars' = 0 /\ u_page' = FIRST_PAGE /\ u_params' = 0
    /\ served' = <<>>
    /\ pc' = "user_get"
    /\ UNCHANGED <<argVars, exit_code, mainVars, retval, diagnosed>>

\* lines 43-45
OrgError ==
    /\ pc = "org_wait"
    /\ \E s \in ErrStatuses : response' = StatusResponse(s)
    /\ inflight' = inflight \ {OrgRequest}
    /\ diagnosed' = diagnosed \cup {i}
    /\ retval' = OnErrorStatus(repo_count, total_stars)
    /\ pc' = "fold"
    /\ UNCHANGED <<argVars, exit_code, mainVars, orgFrame, userFrame, served>>

\* line 47: response.json() raises; nothing catches it
OrgBadJson ==
    /\ pc = "org_wait"
    /\ inflight' = inflight \ {OrgRequest}
    /\ response' = BadJsonResponse
    /\ pc' = "exited"
    /\ exit_code' = EXIT_FAILURE
    /\ UNCHANGED <<argVars, mainVars, orgFrame, userFrame, served, retval, diagnosed>>

\* lines 49-50 and 57
OrgBreak ==
    /\ pc = "org_wait"
    /\ inflight' = inflight \ {OrgRequest}
    /\ response' = PageResponse(<<>>)
    /\ retval' = <<repo_count, total_stars>>
    /\ pc' = "fold"
    /\ UNCHANGED <<argVars, exit_code, mainVars, orgFrame, userFrame, served, diagnosed>>

\* lines 52-55
OrgPage ==
    /\ pc = "org_wait"
    /\ Len(served) < MaxPages
    /\ \E p \in Pages :
        /\ response' = PageResponse(p)
        /\ served' = Append(served, p)
        /\ repo_count' = Accumulate(repo_count, Len(p))
        /\ total_stars' = Accumulate(total_stars, SumSeq(p))
    /\ inflight' = inflight \ {OrgRequest}
    /\ page' = NextPage(page)
    /\ pc' = "org_get"
    /\ UNCHANGED <<argVars, exit_code, mainVars, params, userFrame, retval, diagnosed>>

(* --------------------------- get_user_stats --------------------------- *)
UserRequest == [idx |-> i, shape |-> "user", page |-> u_page]

\* lines 81-84
UserGet ==
    /\ pc = "user_get"
    /\ inflight' = inflight \cup {UserRequest}
    /\ u_params' = u_page
    /\ pc' = "user_wait"
    /\ UNCHANGED <<argVars, exit_code, mainVars, orgFrame, u_repo_count,
                   u_total_stars, u_page, response, served, retval, diagnosed>>

\* line 84: requests.get raises
UserRaises ==
    /\ pc = "user_wait"
    /\ inflight' = inflight \ {UserRequest}
    /\ response' = RaisedResponse
    /\ pc' = "exited"
    /\ exit_code' = EXIT_FAILURE
    /\ UNCHANGED <<argVars, mainVars, orgFrame, userFrame, served, retval, diagnosed>>

\* lines 86-88
UserNotFound ==
    /\ pc = "user_wait"
    /\ inflight' = inflight \ {UserRequest}
    /\ response' = StatusResponse(HTTP_NOT_FOUND)
    /\ diagnosed' = diagnosed \cup {i}
    /\ retval' = <<0, 0>>
    /\ pc' = "fold"
    /\ UNCHANGED <<argVars, exit_code, mainVars, orgFrame, userFrame, served>>

\* lines 89-91
UserError ==
    /\ pc = "user_wait"
    /\ \E s \in ErrStatuses : response' = StatusResponse(s)
    /\ inflight' = inflight \ {UserRequest}
    /\ diagnosed' = diagnosed \cup {i}
    /\ retval' = OnErrorStatus(u_repo_count, u_total_stars)
    /\ pc' = "fold"
    /\ UNCHANGED <<argVars, exit_code, mainVars, orgFrame, userFrame, served>>

\* line 93: response.json() raises
UserBadJson ==
    /\ pc = "user_wait"
    /\ inflight' = inflight \ {UserRequest}
    /\ response' = BadJsonResponse
    /\ pc' = "exited"
    /\ exit_code' = EXIT_FAILURE
    /\ UNCHANGED <<argVars, mainVars, orgFrame, userFrame, served, retval, diagnosed>>

\* lines 95-96 and 103
UserBreak ==
    /\ pc = "user_wait"
    /\ inflight' = inflight \ {UserRequest}
    /\ response' = PageResponse(<<>>)
    /\ retval' = <<u_repo_count, u_total_stars>>
    /\ pc' = "fold"
    /\ UNCHANGED <<argVars, exit_code, mainVars, orgFrame, userFrame, served, diagnosed>>

\* lines 98-101
UserPage ==
    /\ pc = "user_wait"
    /\ Len(served) < MaxPages
    /\ \E p \in Pages :
        /\ response' = PageResponse(p)
        /\ served' = Append(served, p)
        /\ u_repo_count' = Accumulate(u_repo_count, Len(p))
        /\ u_total_stars' = Accumulate(u_total_stars, SumSeq(p))
    /\ inflight' = inflight \ {UserRequest}
    /\ u_page' = NextPage(u_page)
    /\ pc' = "user_get"
    /\ UNCHANGED <<argVars, exit_code, mainVars, orgFrame, u_params, retval, diagnosed>>

Next ==
    \/ ParseArgs \/ LoopNext \/ LoopEnd \/ Fold \/ Report
    \/ OrgGet \/ OrgRaises \/ OrgNotFound \/ OrgError \/ OrgBadJson \/ OrgBreak \/ OrgPage
    \/ UserGet \/ UserRaises \/ UserNotFound \/ UserError \/ UserBadJson \/ UserBreak
    \/ UserPage

Spec == Init /\ [][Next]_vars

(* ===================== properties of the program ====================== *)
RECURSIVE ItemsIn(_)
ItemsIn(pages) == IF pages = <<>> THEN 0 ELSE Len(Head(pages)) + ItemsIn(Tail(pages))

RECURSIVE StarsIn(_)
StarsIn(pages) == IF pages = <<>> THEN 0 ELSE SumSeq(Head(pages)) + StarsIn(Tail(pages))

EmptyPage == PageResponse(<<>>)
NotFound == StatusResponse(HTTP_NOT_FOUND)
IsErrorStatus(r) == ~r.raised /\ r.status_code \in ErrStatuses
FetchRaised == response.raised \/ response = BadJsonResponse
InUserFrame == pc \in {"user_get", "user_wait"} \/ u_params # 0
FinishedOK == pc = "exited" /\ exit_code = 0
NoRequestIssued ==
    /\ inflight = {} /\ params = 0 /\ u_params = 0
    /\ response = NoResponse /\ returned = <<>> /\ retval = <<>>

\* the sum of component c of the values returned for the targets labelled name
RECURSIVE SumReturned(_, _, _)
SumReturned(name, c, k) ==
    IF k = 0 THEN 0
    ELSE (IF org_data[k][2] = name THEN returned[k][c] ELSE 0) + SumReturned(name, c, k - 1)

LabelsOf(od) == { od[k][2] : k \in 1..Len(od) }
RowsOf(ds) == { ds[k] : k \in 1..Len(ds) }
KeysOf(ds) == [k \in 1..Len(ds) |-> <<ds[k].stars, ds[k].repos>>]

(* ------------------------------- C1 ----------------------------------- *)
\* C1: when a listing is served as N non-empty pages, each with status 200,
\* followed by an empty page, the fetch returns the number of items over all
\* N pages and the sum of their stargazers_count, in get_org_stats and in
\* get_user_stats alike.
C1_PagedTotals ==
    (pc = "fold" /\ response = EmptyPage) => retval = <<ItemsIn(served), StarsIn(served)>>

C1_Witness ==
    /\ pc = "fold" /\ response = EmptyPage
    /\ Len(served) >= 2 /\ served[1] # served[2]
    /\ u_params = 0

(* ------------------------------- C2 ----------------------------------- *)
\* C2: after an organization-shaped request is answered 404 the user-shaped
\* listing is requested next for the same target, from page 1 and from zero
\* counts; no organization-shaped request follows for that target; and the
\* value get_org_stats returns is the value of the user-shaped paging.
C2_Fallback ==
    /\ (response = NotFound /\ pc # "fold") =>
          /\ pc \in {"user_get", "user_wait"}
          /\ served = <<>> /\ u_repo_count = 0 /\ u_total_stars = 0
          /\ pc = "user_get" => (u_page = FIRST_PAGE /\ u_params = 0 /\ inflight = {})
          /\ pc = "user_wait" =>
                inflight = {[idx |-> i, shape |-> "user", page |-> FIRST_PAGE]}
    /\ (response = NotFound /\ pc = "fold") => u_params # 0
    /\ InUserFrame => \A r \in inflight : r.shape = "user" /\ r.idx = i
    /\ (pc = "fold" /\ u_params # 0) =>
          retval = IF response = EmptyPage
                   THEN <<ItemsIn(served), StarsIn(served)>> ELSE <<0, 0>>

C2_Witness ==
    /\ pc = "fold" /\ u_params # 0
    /\ response = EmptyPage /\ retval # <<0, 0>>

(* ------------------------------- C3 ----------------------------------- *)
\* C3: a status that is neither 200 nor 404, on any page of either shape,
\* makes the fetch return (0, 0) whatever was accumulated; no request
\* follows for that target; the run goes on with the remaining targets.
C3_ErrorStatus ==
    /\ IsErrorStatus(response) =>
          /\ pc = "fold" /\ retval = <<0, 0>>
          /\ inflight = {} /\ i \in diagnosed
    /\ \A r \in inflight : r.idx \notin diagnosed
    /\ (pc = "exited" /\ org_data # <<>> /\ exit_code # 0) => FetchRaised
    /\ FinishedOK =>
          /\ Len(returned) = Len(org_data)
          /\ \A k \in diagnosed : returned[k] = <<0, 0>>

C3_Witness ==
    /\ pc = "fold" /\ IsErrorStatus(response)
    /\ Len(served) >= 2 /\ u_params = 0
    /\ i < Len(org_data)

(* ------------------------------- C4 ----------------------------------- *)
IsBlankLine(l) == \A k \in 1..Len(l) : IsSpace(l[k])
FileUnusable == Truthy(args_file) /\ args_file \in {MissingPath, LockedPath}
NeitherSupplied == ~Truthy(args_file) /\ organizations = <<>>
NoTargetsInFile ==
    args_file = GoodPath /\ \A k \in 1..Len(file_lines) : IsBlankLine(file_lines[k])
RowsMatchReturned ==
    /\ table_printed
    /\ LabelsOf(org_data) = { sorted_stats[k].name : k \in 1..Len(sorted_stats) }
    /\ \A k \in 1..Len(sorted_stats) :
          /\ sorted_stats[k].repos = SumReturned(sorted_stats[k].name, 1, Len(org_data))
          /\ sorted_stats[k].stars = SumReturned(sorted_stats[k].name, 2, Len(org_data))
    /\ \A k \in diagnosed : returned[k] = <<0, 0>>

\* C4 as stated: the exit status is non-zero exactly when the file cannot be
\* opened or neither input is supplied; every other run exits zero with the
\* table.
C4_Original ==
    pc = "exited" =>
        /\ (exit_code # 0) <=> (FileUnusable \/ NeitherSupplied)
        /\ exit_code = 0 => RowsMatchReturned

\* C4 (amended): the exit status is non-zero exactly when the file cannot be
\* opened, neither input is supplied, the file has no non-blank line, or a
\* page request raises; every other run exits zero and prints the table,
\* a target that failed with a status contributing (0, 0) and the rows of
\* the other targets being the sums of what was fetched.
C4_ExitStatus ==
    pc = "exited" =>
        /\ (exit_code # 0) <=>
              (FileUnusable \/ NeitherSupplied \/ NoTargetsInFile \/ FetchRaised)
        /\ exit_code = 0 => RowsMatchReturned

C4_Witness ==
    /\ FinishedOK
    /\ Len(org_data) >= 2
    /\ 1 \in diagnosed /\ 2 \notin diagnosed
    /\ returned[2] # <<0, 0>>
    /\ org_data[1][2] # org_data[2][2]

(* ------------------------------- C5 ----------------------------------- *)
\* C5: once the input is resolved, no failure of a page request ends the
\* run: the process exits zero with the table, every target folded.
C5_FetchErrorsRecovered ==
    (pc = "exited" /\ org_data # <<>>) =>
        /\ exit_code = 0
        /\ table_printed
        /\ Len(returned) = Len(org_data)

(* ------------------------------- C6 ----------------------------------- *)
\* C6: after the loop display_stats has exactly one entry per distinct
\* display label of the input, holding the sums of the values get_org_stats
\* returned for the targets with that label; a label all of whose targets
\* failed is present with (0, 0).
C6_FoldByLabel ==
    (pc = "report" \/ FinishedOK) =>
        /\ \A j, k \in 1..Len(display_stats) :
              display_stats[j].name = display_stats[k].name => j = k
        /\ { display_stats[k].name : k \in 1..Len(display_stats) } = LabelsOf(org_data)
        /\ \A k \in 1..Len(display_stats) :
              /\ display_stats[k].repos = SumReturned(display_stats[k].name, 1, Len(org_data))
              /\ display_stats[k].stars = SumReturned(display_stats[k].name, 2, Len(org_data))
              /\ (\A t \in 1..Len(org_data) :
                     org_data[t][2] = display_stats[k].name => t \in diagnosed)
                 => (display_stats[k].repos = 0 /\ display_stats[k].stars = 0)

C6_Witness ==
    /\ pc = "report"
    /\ Len(org_data) >= 2
    /\ org_data[1][1] # org_data[2][1] /\ org_data[1][2] = org_data[2][2]
    /\ returned[1] # <<0, 0>> /\ returned[2] # <<0, 0>> /\ returned[1] # returned[2]
    /\ Len(display_stats) = 1

(* ------------------------------- C7 ----------------------------------- *)
\* C7 as stated: with both a file and positional identifiers, or with
\* neither, the program exits non-zero without any request.
C7_Original ==
    (pc # "main" /\ (\/ (Truthy(args_file) /\ organizations # <<>>)
                     \/ (~Truthy(args_file) /\ organizations = <<>>))) =>
        /\ pc = "exited" /\ exit_code # 0
        /\ NoRequestIssued

\* C7 (amended): with neither positional identifiers nor a non-empty --file
\* the program reports a usage error and exits non-zero without any request;
\* with both, no usage error is reported: the file decides the targets and
\* the positional identifiers are ignored.
C7_AtLeastOne ==
    pc # "main" =>
        /\ NeitherSupplied =>
              (pc = "exited" /\ exit_code = EXIT_USAGE /\ NoRequestIssued)
        /\ (Truthy(args_file) /\ organizations # <<>>) =>
              /\ exit_code # EXIT_USAGE
              /\ (FileUnusable \/ NoTargetsInFile) =>
                    (pc = "exited" /\ exit_code = EXIT_FAILURE /\ NoRequestIssued)
              /\ (args_file = GoodPath /\ ~NoTargetsInFile) =>
                    org_data = read_orgs_from_file(file_lines)

C7_Witness ==
    /\ FinishedOK
    /\ Truthy(args_file) /\ organizations # <<>>
    /\ \A k \in 1..Len(org_data) : org_data[k][1] # organizations[1]

(* ------------------------------- C8 ----------------------------------- *)
Permutations(n) == { f \in [1..n -> 1..n] : \A a, b \in 1..n : f[a] = f[b] => a = b }

\* main's loop over a list of targets, the k-th fetch returning rets[k]
RECURSIVE FoldFrom(_, _, _, _)
FoldFrom(od, rets, k, ds) ==
    IF k > Len(od) THEN ds
    ELSE FoldFrom(od, rets, k + 1,
                  AddStats(SetDefault(ds, od[k][2]), od[k][2], rets[k][1], rets[k][2]))

\* C8: permuting the list of query targets (each target keeping its fetched
\* stats) changes neither the per-label totals, nor the totals row, nor the
\* sorted table up to the order of rows with equal (stars, repos).
C8_OrderIndependent ==
    FinishedOK =>
        \A f \in Permutations(Len(org_data)) :
            LET od == [k \in 1..Len(org_data) |-> org_data[f[k]]]
                rets == [k \in 1..Len(org_data) |-> returned[f[k]]]
                ds == FoldFrom(od, rets, 1, <<>>)
            IN /\ RowsOf(ds) = RowsOf(display_stats)
               /\ RowsOf(Sorted(ds)) = RowsOf(sorted_stats)
               /\ KeysOf(Sorted(ds)) = KeysOf(sorted_stats)
               /\ SumRepos(Sorted(ds)) = total_repos
               /\ SumStars(Sorted(ds)) = main_total_stars

C8_Witness ==
    /\ FinishedOK
    /\ Len(org_data) >= 2
    /\ org_data[1][1] # org_data[2][1] /\ org_data[1][2] = org_data[2][2]
    /\ returned[1] # returned[2] /\ returned[2] # <<0, 0>>

(* ------------------------------- C9 ----------------------------------- *)
RECURSIVE ColumnSum(_, _, _)
ColumnSum(ds, c, k) ==
    IF k = 0 THEN 0
    ELSE (IF c = 1 THEN ds[k].repos ELSE ds[k].stars) + ColumnSum(ds, c, k - 1)

\* C9: in the printed table a row with more stars comes first and, among
\* rows with equal stars, a row that comes first has at least as many
\* repositories; the rows are the entries of display_stats, none lost or
\* duplicated; the totals row is the column-wise sum of the rows.
C9_SortedTable ==
    FinishedOK =>
        /\ \A a, b \in 1..Len(sorted_stats) :
              a < b =>
                 /\ sorted_stats[a].stars >= sorted_stats[b].stars
                 /\ sorted_stats[a].stars = sorted_stats[b].stars =>
                       sorted_stats[a].repos >= sorted_stats[b].repos
        /\ Len(sorted_stats) = Len(display_stats)
        /\ RowsOf(sorted_stats) = RowsOf(display_stats)
        /\ total_repos = ColumnSum(display_stats, 1, Len(display_stats))
        /\ main_total_stars = ColumnSum(display_stats, 2, Len(display_stats))

C9_Witness ==
    /\ FinishedOK
    /\ Len(display_stats) = 2
    /\ display_stats[1].stars = display_stats[2].stars
    /\ display_stats[1].repos < display_stats[2].repos
    /\ sorted_stats[1] = display_stats[2]

(* ------------------------------- C10 ---------------------------------- *)
\* a step that sends a request
Issues == inflight' # inflight /\ inflight' # {}

IssueInOrder ==
    Issues =>
        /\ inflight = {}
        /\ response # EmptyPage
        /\ Len(returned) = i - 1
        /\ \E r \in inflight' :
              /\ inflight' = {r}
              /\ r.idx = i
              /\ IF r.shape = "org"
                 THEN /\ u_params = 0
                      /\ r.page = IF params = 0 THEN FIRST_PAGE ELSE params + 1
                      /\ params = 0 => response = NoResponse
                 ELSE /\ r.page = IF u_params = 0 THEN FIRST_PAGE ELSE u_params + 1
                      /\ u_params = 0 => response = NotFound
              /\ (r.page # FIRST_PAGE) => (response.status_code = HTTP_OK /\ response.repos # <<>>)

TargetsInOrder ==
    /\ i' >= i
    /\ i' # i => (i' = i + 1 /\ inflight = {} /\ inflight' = {} /\ Len(returned') = i)

\* C10: at most one request is in flight; the requests of the i-th target
\* all precede those of the (i+1)-th; within a listing the pages requested
\* are 1, 2, 3, ... without gap or repeat; nothing is requested from a
\* listing after it returned an empty page.
C10_Sequential ==
    /\ [](Cardinality(inflight) <= 1)
    /\ [][IssueInOrder]_vars
    /\ [][TargetsInOrder]_vars

C10_Witness ==
    /\ \E r \in inflight : r.idx = 2 /\ r.page = 2 /\ r.shape = "user"
    /\ returned[1] # <<0, 0>>

=============================================================================
